---- MODULE Spec2Model ----
(***************************************************************************)
(* Model of the YouTube timestamp creator page (src/src/pages/Index.tsx):  *)
(* the time codec (timeToSeconds, formatSeconds, formatTimeString, the     *)
(* commit regex of addTimestamp) and the timestamp list kept in the        *)
(* component state.                                                        *)
(*                                                                         *)
(* A JavaScript string is a sequence of one-character strings:             *)
(* "1:05" is <<"1", ":", "0", "5">>.                                       *)
(***************************************************************************)
EXTENDS Integers, Sequences, FiniteSets

VARIABLES
    \* ---- component state (useState hooks) ----
    metadata,            \* null, the videoId of the loaded YouTube video, or the
                         \* metadata of a local file (see LocalMetadata)
    loading,             \* loading flag
    timestamps,          \* the Timestamp[] array held in state
    copied,              \* copied flag
    currentTime,         \* edit-field time string
    currentDescription,  \* edit-field description string
    videoDuration,       \* 0 until the player reports a duration
    \* ---- environment ----
    now,                 \* the last value Date.now() returned
    pendingLoads,        \* videoIds of the handleSubmit calls suspended in their await
    clipboard,           \* text the last step handed to clipboard.writeText (<<>>: none)
    toast,               \* notice the last step raised ("none": no notice)
    \* ---- rendering ----
    needsRender,         \* a setState was issued and React has not re-rendered yet
    displayed,           \* the rows produced by the last render (in order)
    \* ---- history (not program state) ----
    nextOrd,             \* number of entries ever created (insertion stamp)
    lastOp,              \* the step taken last, with its argument
    \* ---- the embedded player ----
    revision,            \* the revision of the page that runs: "Index.tsx" or "part_001"
    ytLoaded,            \* window.YT is defined (the IFrame API script has run)
    player,              \* state `player`: 0 (null) or the index in players of the object
    isPlaying,           \* state `isPlaying`
    players,             \* the YT.Player objects created so far, each with the videoId
                         \* it shows, the value of `player` its event handlers close
                         \* over, its playback state and its position (whole seconds)
    timers,              \* the intervals set and not cleared: for each the index of
                         \* the player whose onStateChange set it
    effectVideoId,       \* metadata?.videoId as of the last render (effect dependency)
    videoSource,         \* state `videoSource` of the later revision: "youtube" or
                         \* "local" (the first revision shows the URL form only)
    \* ---- codec harness: input and results of the pure functions ----
    pc, inStr, inNum, outStr, outNum, outOk

vars == <<metadata, loading, timestamps, copied, currentTime, currentDescription,
          videoDuration, now, pendingLoads, clipboard, toast, needsRender,
          displayed, nextOrd, lastOp, revision, ytLoaded, player, isPlaying,
          players, timers, effectVideoId, videoSource,
          pc, inStr, inNum, outStr, outNum, outOk>>

uiVars == <<metadata, loading, timestamps, copied, currentTime, currentDescription,
            videoDuration, now, pendingLoads, clipboard, toast, needsRender,
            displayed, nextOrd, lastOp, revision, ytLoaded, player, isPlaying,
            players, timers, effectVideoId, videoSource>>

playerVars == <<revision, ytLoaded, player, isPlaying, players, timers, effectVideoId,
                videoSource>>

harnessVars == <<pc, inStr, inNum, outStr, outNum, outOk>>

----------------------------------------------------------------------------
(* JavaScript string and number primitives used by the codec               *)

DigitChars == <<"0", "1", "2", "3", "4", "5", "6", "7", "8", "9">>

Digit == {DigitChars[i] : i \in 1..10}

DigitVal(c) == (CHOOSE i \in 1..10 : DigitChars[i] = c) - 1

\* The result of parseInt on a string with no leading digit, and of any
\* arithmetic on it.  Every number the codec computes from digits is >= 0,
\* so the value -1 is free to stand for NaN.
NaN == -1

JsMul(a, b) == IF a = NaN \/ b = NaN THEN NaN ELSE a * b

JsAdd(a, b) == IF a = NaN \/ b = NaN THEN NaN ELSE a + b

\* a > b in JavaScript: false when either side is NaN
JsGt(a, b) == a # NaN /\ b # NaN /\ a > b

\* Number.prototype.toString / template interpolation of a non-negative integer
RECURSIVE numToString(_)
numToString(n) ==
    IF n < 10 THEN <<DigitChars[n + 1]>>
    ELSE numToString(n \div 10) \o <<DigitChars[(n % 10) + 1]>>

\* the longest prefix of s made of digits
RECURSIVE LeadingDigits(_)
LeadingDigits(s) ==
    IF s = <<>> \/ Head(s) \notin Digit THEN <<>>
    ELSE <<Head(s)>> \o LeadingDigits(Tail(s))

RECURSIVE DigitsValue(_)
DigitsValue(ds) ==
    IF ds = <<>> THEN 0
    ELSE DigitsValue(SubSeq(ds, 1, Len(ds) - 1)) * 10 + DigitVal(ds[Len(ds)])

\* parseInt(part): the value of the leading digits, NaN when there is none
parseInt(part) ==
    LET digits == LeadingDigits(part)
    IN  IF digits = <<>> THEN NaN ELSE DigitsValue(digits)

\* str.split(':')
RECURSIVE Split(_)
Split(s) ==
    IF \A i \in 1..Len(s) : s[i] # ":" THEN <<s>>
    ELSE LET k == CHOOSE i \in 1..Len(s) :
                      s[i] = ":" /\ \A j \in 1..(i - 1) : s[j] # ":"
         IN  <<SubSeq(s, 1, k - 1)>> \o Split(SubSeq(s, k + 1, Len(s)))

\* str.padStart(2, '0')
padStart2(s) == IF Len(s) >= 2 THEN s ELSE IF Len(s) = 1 THEN <<"0">> \o s ELSE <<"0", "0">>

\* str.padEnd(2, '0')
padEnd2(s) == IF Len(s) >= 2 THEN s ELSE IF Len(s) = 1 THEN s \o <<"0">> ELSE <<"0", "0">>

\* Faulty variant of substring02: substring(1, 3)
substring02_fromSecond(s) == IF Len(s) <= 1 THEN <<>> ELSE SubSeq(s, 2, IF Len(s) < 3 THEN Len(s) ELSE 3)

\* str.substring(0, 2)
substring02(s) == IF Len(s) <= 2 THEN s ELSE SubSeq(s, 1, 2)

\* Faulty variant of startsWith: the last character of the prefix is not compared
startsWith_allButLast(s, prefix) ==
    /\ Len(s) >= Len(prefix) - 1
    /\ SubSeq(s, 1, Len(prefix) - 1) = SubSeq(prefix, 1, Len(prefix) - 1)

\* s.startsWith(prefix)
startsWith(s, prefix) ==
    /\ Len(s) >= Len(prefix)
    /\ SubSeq(s, 1, Len(prefix)) = prefix

\* a || b on strings: the empty string is falsy
\* Faulty variant of OrElse: an empty segment is kept
OrElse_keepsEmpty(a, b) == a

OrElse(a, b) == IF a = <<>> THEN b ELSE a

\* input.replace(/[^\d:]/g, '')
stripNonTime(s) == SelectSeq(s, LAMBDA c : c \in Digit \cup {":"})

----------------------------------------------------------------------------
(* The time codec                                                          *)

\* Faulty variant of timeToSeconds: four and more segments are read as three
timeToSeconds_firstThree(time) ==
    LET segments == Split(time)
        parts    == [i \in 1..Len(segments) |-> parseInt(segments[i])]
    IN  IF Len(parts) = 2 THEN JsAdd(JsMul(parts[1], 60), parts[2])
        ELSE IF Len(parts) >= 3
             THEN JsAdd(JsAdd(JsMul(parts[1], 3600), JsMul(parts[2], 60)), parts[3])
             ELSE 0

timeToSeconds(time) ==
    LET segments == Split(time)
        parts    == [i \in 1..Len(segments) |-> parseInt(segments[i])]
    IN  IF Len(parts) = 2 THEN JsAdd(JsMul(parts[1], 60), parts[2])
        ELSE IF Len(parts) = 3
             THEN JsAdd(JsAdd(JsMul(parts[1], 3600), JsMul(parts[2], 60)), parts[3])
             ELSE 0

\* Faulty variant of formatSeconds: the minutes are not reduced modulo the hour
formatSeconds_minutesOfTotal(totalSeconds) ==
    LET hours   == totalSeconds \div 3600
        minutes == totalSeconds \div 60
        seconds == totalSeconds % 60
    IN  IF hours > 0
        THEN numToString(hours) \o <<":">> \o padStart2(numToString(minutes))
                 \o <<":">> \o padStart2(numToString(seconds))
        ELSE numToString(minutes) \o <<":">> \o padStart2(numToString(seconds))

\* Faulty variant of formatSeconds: the seconds are not padded to two digits
formatSeconds_secondsUnpadded(totalSeconds) ==
    LET hours   == totalSeconds \div 3600
        minutes == (totalSeconds % 3600) \div 60
        seconds == totalSeconds % 60
    IN  IF hours > 0
        THEN numToString(hours) \o <<":">> \o padStart2(numToString(minutes))
                 \o <<":">> \o numToString(seconds)
        ELSE numToString(minutes) \o <<":">> \o numToString(seconds)

formatSeconds(totalSeconds) ==
    LET hours   == totalSeconds \div 3600
        minutes == (totalSeconds % 3600) \div 60
        seconds == totalSeconds % 60
    IN  IF hours > 0
        THEN numToString(hours) \o <<":">> \o padStart2(numToString(minutes))
                 \o <<":">> \o padStart2(numToString(seconds))
        ELSE numToString(minutes) \o <<":">> \o padStart2(numToString(seconds))

\* the cleaned string formatTimeString builds before it looks at the duration
cleanedTime(input) ==
    LET parts == Split(stripNonTime(input))
    IN  IF Len(parts) <= 2
        THEN LET minutes == OrElse(parts[1], <<"0">>)
                 seconds == IF Len(parts) > 1 THEN substring02(padEnd2(parts[2]))
                            ELSE <<"0", "0">>
             IN  minutes \o <<":">> \o seconds
        ELSE LET hours   == OrElse(parts[1], <<"0">>)
                 minutes == OrElse(parts[2], <<"0", "0">>)
                 seconds == OrElse(substring02(padEnd2(parts[3])), <<"0", "0">>)
             IN  hours \o <<":">> \o minutes \o <<":">> \o seconds

\* the totalSeconds formatTimeString recomputes from the cleaned segments
cleanedTotal(input) ==
    LET parts == Split(stripNonTime(input))
    IN  IF Len(parts) <= 2
        THEN LET minutes == OrElse(parts[1], <<"0">>)
                 seconds == IF Len(parts) > 1 THEN substring02(padEnd2(parts[2]))
                            ELSE <<"0", "0">>
             IN  JsAdd(JsMul(parseInt(minutes), 60), parseInt(seconds))
        ELSE LET hours   == OrElse(parts[1], <<"0">>)
                 minutes == OrElse(parts[2], <<"0", "0">>)
                 seconds == OrElse(substring02(padEnd2(parts[3])), <<"0", "0">>)
             IN  JsAdd(JsAdd(JsMul(parseInt(hours), 3600), JsMul(parseInt(minutes), 60)),
                       parseInt(seconds))

\* Faulty variant of formatTimeString: the duration is never looked at
formatTimeString_noClamp(input, duration) == cleanedTime(input)

\* Faulty variant of formatTimeString: a total equal to the duration is clamped too
formatTimeString_clampAtEqual(input, duration) ==
    IF (JsGt(cleanedTotal(input), duration) \/ cleanedTotal(input) = duration)
           /\ duration > 0
    THEN formatSeconds(duration)
    ELSE cleanedTime(input)

formatTimeString(input, duration) ==
    IF JsGt(cleanedTotal(input), duration) /\ duration > 0
    THEN formatSeconds(duration)
    ELSE cleanedTime(input)

\* [0-5]
Digit05 == {"0", "1", "2", "3", "4", "5"}

\* the positions reached from a position of P by consuming one character of class
StepClass(s, P, class) == {p + 1 : p \in {q \in P : q <= Len(s) /\ s[q] \in class}}

\* the positions reached from a position of P by consuming one or more of class
RECURSIVE PlusClass(_, _, _)
PlusClass(s, P, class) ==
    LET Q == StepClass(s, P, class)
    IN  IF Q = {} THEN {} ELSE Q \cup PlusClass(s, Q, class)

\* Faulty variant of timeRegexTest: the tens digit of the minutes is \d, not [0-5]
timeRegexTest_anyTens(s) ==
    LET start       == {1}
        afterHours  == start \cup StepClass(s, PlusClass(s, start, Digit), {":"})
        afterTens   == afterHours \cup StepClass(s, afterHours, Digit)
        afterMin    == StepClass(s, afterTens, Digit)
        afterColon  == StepClass(s, afterMin, {":"})
        afterSec    == StepClass(s, StepClass(s, afterColon, Digit05), Digit)
    IN  (Len(s) + 1) \in afterSec

\* timeRegex.test(s) for /^(\d+:)?([0-5]?\d):([0-5]\d)$/ : the sets of
\* positions the matcher can stand at after each piece of the pattern
timeRegexTest(s) ==
    LET start       == {1}
        afterHours  == start \cup StepClass(s, PlusClass(s, start, Digit), {":"})
        afterTens   == afterHours \cup StepClass(s, afterHours, Digit05)
        afterMin    == StepClass(s, afterTens, Digit)
        afterColon  == StepClass(s, afterMin, {":"})
        afterSec    == StepClass(s, StepClass(s, afterColon, Digit05), Digit)
    IN  (Len(s) + 1) \in afterSec

----------------------------------------------------------------------------
(* extractVideoId                                                          *)

\* JavaScript null, for a string-valued result or state (never a video id:
\* ids have 11 characters)
null == <<>>

\* the metadata handleFileUpload sets: isLocal is true, there is no videoId,
\* the title is the name of the file.  A video id is a sequence of single
\* characters, so the first element tells the two kinds of metadata apart.
LocalMetadata(name) == <<"isLocal">> \o name

\* metadata?.isLocal
isLocal(m) == m # null /\ m[1] = "isLocal"

\* metadata?.videoId (null for undefined)
videoIdOf(m) == IF isLocal(m) THEN null ELSE m

\* \w
WordChars ==
    {"a", "b", "c", "d", "e", "f", "g", "h", "i", "j", "k", "l", "m",
     "n", "o", "p", "q", "r", "s", "t", "u", "v", "w", "x", "y", "z",
     "A", "B", "C", "D", "E", "F", "G", "H", "I", "J", "K", "L", "M",
     "N", "O", "P", "Q", "R", "S", "T", "U", "V", "W", "X", "Y", "Z",
     "0", "1", "2", "3", "4", "5", "6", "7", "8", "9", "_"}

\* the five alternatives of group 1, in the order the matcher tries them;
\* "." stands for the unescaped dot and "\\w" for the class \w
Alternatives ==
    << <<"y", "o", "u", "t", "u", ".", "b", "e", "/">>,
       <<"v", "/">>,
       <<"/", "u", "/", "\\w", "/">>,
       <<"e", "m", "b", "e", "d", "/">>,
       <<"w", "a", "t", "c", "h", "?">> >>

\* one pattern element against one character
ElementMatches(e, c) ==
    IF e = "." THEN c # "\n"
    ELSE IF e = "\\w" THEN c \in WordChars
    ELSE c = e

\* the alternative alt matches url from offset p (p characters skipped)
AlternativeAt(url, p, alt) ==
    /\ p + Len(alt) <= Len(url)
    /\ \A i \in 1..Len(alt) : ElementMatches(alt[i], url[p + i])

\* offset after an optional literal c at offset q (greedy: taken when present)
SkipOptional(url, q, c) ==
    IF q < Len(url) /\ url[q + 1] = c THEN q + 1 ELSE q

\* the longest run of characters outside #&? from offset q: ([^#&?]*)
RECURSIVE RunOutside(_, _)
RunOutside(url, q) ==
    IF q < Len(url) /\ url[q + 1] \notin {"#", "&", "?"}
    THEN <<url[q + 1]>> \o RunOutside(url, q + 1)
    ELSE <<>>

\* the characters an alternative can start with (none starts with a class)
FirstCharacters == {Alternatives[k][1] : k \in 1..Len(Alternatives)}

\* index of the first alternative, from k on, that matches at offset p
\* (0: none does)
RECURSIVE FirstAlternativeAt(_, _, _)
FirstAlternativeAt(url, p, k) ==
    IF k > Len(Alternatives) THEN 0
    ELSE IF AlternativeAt(url, p, Alternatives[k]) THEN k
    ELSE FirstAlternativeAt(url, p, k + 1)

\* the greedy ^.* : the matcher gives back one character at a time from
\* offset p until an alternative matches (-1: it never does)
RECURSIVE LastOffset(_, _)
LastOffset(url, p) ==
    IF p < 0 THEN -1
    ELSE IF /\ p < Len(url)
            /\ url[p + 1] \in FirstCharacters
            /\ FirstAlternativeAt(url, p, 1) # 0
         THEN p
    ELSE LastOffset(url, p - 1)

\* match[7] of url.match(regExp), or null when there is no match;
\* everything after the alternative always matches
group7(url) ==
    LET p == LastOffset(url, Len(url))
    IN  IF p = -1 THEN null
        ELSE LET q  == p + Len(Alternatives[FirstAlternativeAt(url, p, 1)])
                 q1 == SkipOptional(url, q, "?")
                 q2 == SkipOptional(url, q1, "v")
                 q3 == SkipOptional(url, q2, "=")
             IN  RunOutside(url, q3)

\* Faulty variant of extractVideoId: the length of the identifier is not checked
extractVideoId_anyLength(url) == group7(url)

extractVideoId(url) ==
    LET id == group7(url)
    IN  IF id # null /\ Len(id) = 11 THEN id ELSE null

----------------------------------------------------------------------------
(* Bounds and the inputs the environment may supply                        *)

\* entries ever created in one run
MaxAdds == 3

\* Date.now() ranges over 0..MaxClock
MaxClock == 1

\* the duration the player reports in onReady (seconds)
VideoLen == 40

Str0_00 == <<"0", ":", "0", "0">>

\* values of e.target.value the user may leave in the time field
TypedTimes ==
    { <<"0", ":", "1", "0">>,            \* 0:10
      <<"0", ":", "5", "0">>,            \* 0:50
      <<"6", "0", ":", "0", "0">> }      \* 60:00, minutes out of range

\* values of e.target.value the user may leave in the description field
TypedDescriptions == { <<>>, <<"A">> }

\* YT.Player objects made in one run
MaxPlayers == 2

\* intervals set in one run
MaxTimers == 2

\* the length in seconds of every video but the one of UrlYoutuBe
ClipLen == 3

VideoIdExample == <<"d", "Q", "w", "4", "w", "9", "W", "g", "X", "c", "Q">>

\* the length in seconds of the video of UrlLecture
LectureLen == 3600

VideoIdLecture == <<"b", "b", "b", "b", "b", "b", "b", "b", "b", "b", "b">>

\* what getDuration() of a player showing the video gives
getDuration(videoId) ==
    IF videoId = VideoIdExample THEN VideoLen
    ELSE IF videoId = VideoIdLecture THEN LectureLen
    ELSE ClipLen

\* the URL the user loads videos from
UrlYoutuBe == <<"h", "t", "t", "p", "s", ":", "/", "/", "y", "o", "u", "t", "u", ".", "b", "e", "/", "d", "Q", "w", "4", "w", "9", "W", "g", "X", "c", "Q">>

\* values of the url field at the time the form is submitted
TypedUrls == { UrlYoutuBe }

\* the URL of a short clip
UrlClip == <<"h", "t", "t", "p", "s", ":", "/", "/", "y", "o", "u", "t", "u", ".", "b", "e", "/", "a", "a", "a", "a", "a", "a", "a", "a", "a", "a", "a">>

\* the URL of a video of an hour
UrlLecture == <<"h", "t", "t", "p", "s", ":", "/", "/", "y", "o", "u", "t", "u", ".", "b", "e", "/", "b", "b", "b", "b", "b", "b", "b", "b", "b", "b", "b">>

\* ids a caller may hand to removeTimestamp
IdUniverse == 0..MaxClock

----------------------------------------------------------------------------
(* The timestamp list                                                      *)

\* Faulty variant of comesAfter: equal keys are swapped too
comesAfter_orEqual(a, b) == a.seconds - b.seconds >= 0

\* a.seconds - b.seconds > 0 : the comparator asks for b before a
comesAfter(a, b) == a.seconds - b.seconds > 0

\* insert e into the sorted array acc behind every element it does not
\* have to precede (what a stable sort does with equal keys)
RECURSIVE insertStable(_, _)
insertStable(acc, e) ==
    IF acc = <<>> THEN <<e>>
    ELSE IF comesAfter(acc[Len(acc)], e)
         THEN insertStable(SubSeq(acc, 1, Len(acc) - 1), e) \o <<acc[Len(acc)]>>
         ELSE Append(acc, e)

\* Array.prototype.sort((a, b) => a.seconds - b.seconds): stable since
\* ECMAScript 2019; sorts the array it is called on and returns it
RECURSIVE sortBySeconds(_)
sortBySeconds(arr) ==
    IF arr = <<>> THEN <<>>
    ELSE insertStable(sortBySeconds(SubSeq(arr, 1, Len(arr) - 1)), arr[Len(arr)])

\* `${time} - ${description}`
exportLine(ts) == ts.time \o <<" ", "-", " ">> \o ts.description

\* Faulty variant of joinLines: every line, the last too, ends in a newline
RECURSIVE joinLines_newlineAfterEach(_)
joinLines_newlineAfterEach(arr) ==
    IF arr = <<>> THEN <<>>
    ELSE exportLine(arr[1]) \o <<"\n">> \o joinLines_newlineAfterEach(Tail(arr))

\* .map(...).join("\n")
RECURSIVE joinLines(_)
joinLines(arr) ==
    IF arr = <<>> THEN <<>>
    ELSE IF Len(arr) = 1 THEN exportLine(arr[1])
    ELSE exportLine(arr[1]) \o <<"\n">> \o joinLines(Tail(arr))

\* Faulty variant of newTimestamp: seconds taken as parseInt(time)
newTimestamp_parseIntSeconds(time, description, clock, ord) ==
    [id |-> clock, time |-> time, description |-> description,
     seconds |-> parseInt(time), ord |-> ord]

\* the Timestamp object addTimestamp builds; ord is the insertion stamp
\* (history only, the program has no such field)
newTimestamp(time, description, clock, ord) ==
    [id |-> clock, time |-> time, description |-> description,
     seconds |-> timeToSeconds(time), ord |-> ord]

\* Faulty variant of withoutId: === in place of !==
withoutId_keepsMatching(arr, id) == SelectSeq(arr, LAMBDA ts : ts.id = id)

\* timestamps.filter(ts => ts.id !== id)
withoutId(arr, id) == SelectSeq(arr, LAMBDA ts : ts.id # id)

Op(name, id) == [op |-> name, param |-> id]

----------------------------------------------------------------------------
(* The page: state after the first render, and one action per handler      *)

UiInit ==
    /\ metadata = null
    /\ loading = FALSE
    /\ timestamps = <<>>
    /\ copied = FALSE
    /\ currentTime = Str0_00
    /\ currentDescription = <<>>
    /\ videoDuration = 0
    /\ now = 0
    /\ pendingLoads = <<>>
    /\ clipboard = <<>>
    /\ toast = "none"
    /\ needsRender = FALSE
    /\ displayed = <<>>
    /\ nextOrd = 0
    /\ lastOp = Op("init", 0)
    /\ player = 0
    /\ isPlaying = FALSE
    /\ players = <<>>
    /\ timers = <<>>
    /\ effectVideoId = null
    /\ videoSource = "youtube"

HarnessIdle ==
    /\ pc = "ui"
    /\ inStr = <<>>
    /\ inNum = 0
    /\ outStr = <<>>
    /\ outNum = 0
    /\ outOk = FALSE

\* the IFrame API script is in place before the user does anything, and
\* the page is the one of src/pages/Index.tsx
ApiInPlace ==
    /\ ytLoaded = TRUE
    /\ revision = "Index.tsx"

Init == UiInit /\ ApiInPlace /\ HarnessIdle

\* React re-renders after a state update, before the next event is handled.
\* The list is rendered with timestamps.sort(...), which sorts the array
\* held in state.
\* The effect on [metadata?.videoId] runs after a render in which the
\* video id differs from the one of the render before, and calls
\* initializePlayer when window.YT is there: a new YT.Player is made, its
\* event handlers closing over the `player` of this render, and setPlayer
\* asks for another render.  In the later revision initializePlayer makes
\* the player only while videoSource is "youtube".
Render ==
    /\ needsRender
    /\ IF metadata # null /\ Len(timestamps) > 0
       THEN /\ timestamps' = sortBySeconds(timestamps)
            /\ displayed' = timestamps'
       ELSE /\ displayed' = <<>>
            /\ UNCHANGED timestamps
    /\ effectVideoId' = videoIdOf(metadata)
    /\ IF /\ videoIdOf(metadata) # null
          /\ videoIdOf(metadata) # effectVideoId
          /\ ytLoaded
          /\ videoSource = "youtube"
       THEN /\ players' = Append(players, [videoId  |-> videoIdOf(metadata),
                                           closure  |-> player,
                                           state    |-> "unstarted",
                                           position |-> 0])
            /\ player' = Len(players) + 1
            /\ needsRender' = TRUE
       ELSE /\ needsRender' = FALSE
            /\ UNCHANGED <<players, player>>
    /\ toast' = "none"
    /\ clipboard' = <<>>
    /\ lastOp' = Op("render", 0)
    /\ UNCHANGED <<metadata, loading, copied, currentTime, currentDescription,
                   videoDuration, now, pendingLoads, nextOrd>>
    /\ UNCHANGED <<revision, videoSource, ytLoaded, isPlaying, timers>>
    /\ UNCHANGED harnessVars

\* onChange of the time field (the field is rendered once a video is loaded)
TypeTime(raw) ==
    /\ ~needsRender
    /\ metadata # null
    /\ currentTime' = formatTimeString(raw, videoDuration)
    /\ needsRender' = TRUE
    /\ toast' = "none"
    /\ clipboard' = <<>>
    /\ lastOp' = Op("typeTime", 0)
    /\ UNCHANGED <<metadata, loading, timestamps, copied, currentDescription,
                   videoDuration, now, pendingLoads, displayed, nextOrd>>
    /\ UNCHANGED playerVars
    /\ UNCHANGED harnessVars

\* onChange of the description field
TypeDescription(d) ==
    /\ ~needsRender
    /\ metadata # null
    /\ currentDescription' = d
    /\ needsRender' = TRUE
    /\ toast' = "none"
    /\ clipboard' = <<>>
    /\ lastOp' = Op("typeDescription", 0)
    /\ UNCHANGED <<metadata, loading, timestamps, copied, currentTime,
                   videoDuration, now, pendingLoads, displayed, nextOrd>>
    /\ UNCHANGED playerVars
    /\ UNCHANGED harnessVars

\* Faulty variant of addTimestamp: the format check is missing
addTimestamp_noFormatCheck ==
    /\ ~needsRender
    /\ lastOp' = Op("addTimestamp", 0)
    /\ clipboard' = <<>>
    /\ IF metadata = null
       THEN /\ toast' = "none"
            /\ UNCHANGED <<timestamps, currentTime, currentDescription,
                           needsRender, nextOrd, now>>
       ELSE IF currentTime = <<>> \/ currentDescription = <<>>
       THEN /\ toast' = "Please enter both time and description"
            /\ UNCHANGED <<timestamps, currentTime, currentDescription,
                           needsRender, nextOrd, now>>
       ELSE /\ nextOrd < MaxAdds
            /\ \E t \in now..MaxClock :
                   /\ now' = t
                   /\ timestamps' = Append(timestamps,
                          newTimestamp(currentTime, currentDescription, t, nextOrd))
            /\ currentDescription' = <<>>
            /\ currentTime' = Str0_00
            /\ toast' = "Timestamp added"
            /\ needsRender' = TRUE
            /\ nextOrd' = nextOrd + 1
    /\ UNCHANGED <<metadata, loading, copied, videoDuration, pendingLoads, displayed>>
    /\ UNCHANGED playerVars
    /\ UNCHANGED harnessVars

\* Faulty variant of addTimestamp: the emptiness check is missing
addTimestamp_noEmptyCheck ==
    /\ ~needsRender
    /\ lastOp' = Op("addTimestamp", 0)
    /\ clipboard' = <<>>
    /\ IF metadata = null
       THEN /\ toast' = "none"
            /\ UNCHANGED <<timestamps, currentTime, currentDescription,
                           needsRender, nextOrd, now>>
       ELSE IF ~timeRegexTest(currentTime)
       THEN /\ toast' = "Invalid time format. Please use mm:ss or h:mm:ss"
            /\ UNCHANGED <<timestamps, currentTime, currentDescription,
                           needsRender, nextOrd, now>>
       ELSE /\ nextOrd < MaxAdds
            /\ \E t \in now..MaxClock :
                   /\ now' = t
                   /\ timestamps' = Append(timestamps,
                          newTimestamp(currentTime, currentDescription, t, nextOrd))
            /\ currentDescription' = <<>>
            /\ currentTime' = Str0_00
            /\ toast' = "Timestamp added"
            /\ needsRender' = TRUE
            /\ nextOrd' = nextOrd + 1
    /\ UNCHANGED <<metadata, loading, copied, videoDuration, pendingLoads, displayed>>
    /\ UNCHANGED playerVars
    /\ UNCHANGED harnessVars

\* Date.now() is read once, for the id: it returns t, no smaller than the
\* value it returned before
addTimestamp ==
    /\ ~needsRender
    /\ lastOp' = Op("addTimestamp", 0)
    /\ clipboard' = <<>>
    /\ IF metadata = null
       THEN /\ toast' = "none"
            /\ UNCHANGED <<timestamps, currentTime, currentDescription,
                           needsRender, nextOrd, now>>
       ELSE IF currentTime = <<>> \/ currentDescription = <<>>
       THEN /\ toast' = "Please enter both time and description"
            /\ UNCHANGED <<timestamps, currentTime, currentDescription,
                           needsRender, nextOrd, now>>
       ELSE IF ~timeRegexTest(currentTime)
       THEN /\ toast' = "Invalid time format. Please use mm:ss or h:mm:ss"
            /\ UNCHANGED <<timestamps, currentTime, currentDescription,
                           needsRender, nextOrd, now>>
       ELSE /\ nextOrd < MaxAdds
            /\ \E t \in now..MaxClock :
                   /\ now' = t
                   /\ timestamps' = Append(timestamps,
                          newTimestamp(currentTime, currentDescription, t, nextOrd))
            /\ currentDescription' = <<>>
            /\ currentTime' = Str0_00
            /\ toast' = "Timestamp added"
            /\ needsRender' = TRUE
            /\ nextOrd' = nextOrd + 1
    /\ UNCHANGED <<metadata, loading, copied, videoDuration, pendingLoads, displayed>>
    /\ UNCHANGED playerVars
    /\ UNCHANGED harnessVars

removeTimestamp(id) ==
    /\ ~needsRender
    /\ timestamps' = withoutId(timestamps, id)
    /\ toast' = "Timestamp removed"
    /\ clipboard' = <<>>
    /\ needsRender' = TRUE
    /\ lastOp' = Op("removeTimestamp", id)
    /\ UNCHANGED <<metadata, loading, copied, currentTime, currentDescription,
                   videoDuration, now, pendingLoads, displayed, nextOrd>>
    /\ UNCHANGED playerVars
    /\ UNCHANGED harnessVars

\* Faulty variant of copyToClipboard: the empty list is not turned away
copyToClipboard_noEmptyGuard ==
    /\ ~needsRender
    /\ lastOp' = Op("copyToClipboard", 0)
    /\ timestamps' = sortBySeconds(timestamps)
    /\ clipboard' = joinLines(timestamps')
    /\ copied' = TRUE
    /\ toast' = "Timestamps copied to clipboard!"
    /\ needsRender' = TRUE
    /\ UNCHANGED <<metadata, loading, currentTime, currentDescription,
                   videoDuration, now, pendingLoads, displayed, nextOrd>>
    /\ UNCHANGED playerVars
    /\ UNCHANGED harnessVars

copyToClipboard ==
    /\ ~needsRender
    /\ lastOp' = Op("copyToClipboard", 0)
    /\ IF Len(timestamps) = 0
       THEN /\ toast' = "No timestamps to copy"
            /\ clipboard' = <<>>
            /\ UNCHANGED <<timestamps, copied, needsRender>>
       ELSE /\ timestamps' = sortBySeconds(timestamps)
            /\ clipboard' = joinLines(timestamps')
            /\ copied' = TRUE
            /\ toast' = "Timestamps copied to clipboard!"
            /\ needsRender' = TRUE
    /\ UNCHANGED <<metadata, loading, currentTime, currentDescription,
                   videoDuration, now, pendingLoads, displayed, nextOrd>>
    /\ UNCHANGED playerVars
    /\ UNCHANGED harnessVars

\* setTimeout(() => setCopied(false), 2000)
copiedTimeout ==
    /\ ~needsRender
    /\ copied
    /\ copied' = FALSE
    /\ needsRender' = TRUE
    /\ toast' = "none"
    /\ clipboard' = <<>>
    /\ lastOp' = Op("copiedTimeout", 0)
    /\ UNCHANGED <<metadata, loading, timestamps, currentTime, currentDescription,
                   videoDuration, now, pendingLoads, displayed, nextOrd>>
    /\ UNCHANGED playerVars
    /\ UNCHANGED harnessVars

\* handleSubmit up to its await, with the url field holding url: an empty
\* field and a URL without an 11-character video id are turned away.  The
\* submit button is disabled while loading, and the later revision shows it
\* only while videoSource is "youtube".
handleSubmit(url) ==
    /\ ~needsRender
    /\ ~loading
    /\ videoSource = "youtube"
    /\ Len(players) < MaxPlayers
    /\ clipboard' = <<>>
    /\ lastOp' = Op("handleSubmit", url)
    /\ IF url = <<>>
       THEN /\ toast' = "Please enter a YouTube URL"
            /\ UNCHANGED <<loading, pendingLoads, needsRender>>
       ELSE \E videoId \in {extractVideoId(url)} :
                IF videoId = null
                THEN /\ toast' = "Invalid YouTube URL"
                     /\ UNCHANGED <<loading, pendingLoads, needsRender>>
                ELSE /\ loading' = TRUE
                     /\ pendingLoads' = Append(pendingLoads, videoId)
                     /\ needsRender' = TRUE
                     /\ toast' = "none"
    /\ UNCHANGED <<metadata, timestamps, copied, currentTime, currentDescription,
                   videoDuration, now, displayed, nextOrd>>
    /\ UNCHANGED playerVars
    /\ UNCHANGED harnessVars

\* Faulty variant of loadResolved: the finally block is missing
loadResolved_keepsLoading ==
    /\ ~needsRender
    /\ pendingLoads # <<>>
    /\ pendingLoads' = Tail(pendingLoads)
    /\ metadata' = Head(pendingLoads)
    /\ timestamps' = <<>>
    /\ toast' = "Video loaded successfully"
    /\ clipboard' = <<>>
    /\ needsRender' = TRUE
    /\ lastOp' = Op("loadResolved", 0)
    /\ UNCHANGED <<loading, copied, currentTime, currentDescription, videoDuration,
                   now, displayed, nextOrd>>
    /\ UNCHANGED playerVars
    /\ UNCHANGED harnessVars

\* handleSubmit from the end of its await: the new video replaces the old
loadResolved ==
    /\ ~needsRender
    /\ pendingLoads # <<>>
    /\ pendingLoads' = Tail(pendingLoads)
    /\ metadata' = Head(pendingLoads)
    /\ timestamps' = <<>>
    /\ toast' = "Video loaded successfully"
    /\ clipboard' = <<>>
    /\ loading' = FALSE
    /\ needsRender' = TRUE
    /\ lastOp' = Op("loadResolved", 0)
    /\ UNCHANGED <<copied, currentTime, currentDescription, videoDuration, now,
                   displayed, nextOrd>>
    /\ UNCHANGED playerVars
    /\ UNCHANGED harnessVars

\* onReady of the player made last: event.target.getDuration()
onReady ==
    /\ ~needsRender
    /\ players # <<>>
    /\ videoDuration' = getDuration(players[Len(players)].videoId)
    /\ needsRender' = TRUE
    /\ toast' = "none"
    /\ clipboard' = <<>>
    /\ lastOp' = Op("onReady", 0)
    /\ UNCHANGED <<metadata, loading, timestamps, copied, currentTime,
                   currentDescription, now, pendingLoads, displayed, nextOrd>>
    /\ UNCHANGED playerVars
    /\ UNCHANGED harnessVars

Next ==
    \/ Render
    \/ \E raw \in TypedTimes : TypeTime(raw)
    \/ \E d \in TypedDescriptions : TypeDescription(d)
    \/ addTimestamp
    \/ \E id \in IdUniverse : removeTimestamp(id)
    \/ copyToClipboard
    \/ copiedTimeout
    \/ \E url \in TypedUrls : handleSubmit(url)
    \/ loadResolved
    \/ onReady

Spec == Init /\ [][Next]_vars

----------------------------------------------------------------------------
(* The embedded player: its events, the polling timer and the controls      *)

Min(a, b) == IF a < b THEN a ELSE b
Max(a, b) == IF a > b THEN a ELSE b

\* floor(player.getCurrentTime()) of the object `player` refers to
currentSecondsOf(k) == players[k].position

\* the IFrame API script has run: window.YT is defined and
\* window.onYouTubeIframeAPIReady is called; it was set by the mount effect
\* and sees the metadata of the first render, null, so it makes no player
onYouTubeIframeAPIReady ==
    /\ ~needsRender
    /\ ~ytLoaded
    /\ ytLoaded' = TRUE
    /\ toast' = "none"
    /\ clipboard' = <<>>
    /\ lastOp' = Op("onYouTubeIframeAPIReady", 0)
    /\ UNCHANGED <<metadata, loading, timestamps, copied, currentTime,
                   currentDescription, videoDuration, now, pendingLoads,
                   needsRender, displayed, nextOrd>>
    /\ UNCHANGED <<revision, videoSource, player, isPlaying, players, timers, effectVideoId>>
    /\ UNCHANGED harnessVars

\* onStateChange of player k, which went to the playback state data: the
\* value the handler returns (a function clearing the interval) is dropped
\* by the player API, so an interval once set stays
onStateChange(k, data) ==
    /\ ~needsRender
    /\ k \in 1..Len(players)
    /\ players[k].state # data
    /\ data = "playing" => Len(timers) < MaxTimers
    /\ players' = [players EXCEPT ![k].state = data]
    /\ isPlaying' = (data = "playing")
    /\ needsRender' = TRUE
    /\ timers' = IF data = "playing" THEN Append(timers, k) ELSE timers
    /\ toast' = "none"
    /\ clipboard' = <<>>
    /\ lastOp' = Op("onStateChange", k)
    /\ UNCHANGED <<metadata, loading, timestamps, copied, currentTime,
                   currentDescription, videoDuration, now, pendingLoads,
                   displayed, nextOrd>>
    /\ UNCHANGED <<revision, videoSource, ytLoaded, player, effectVideoId>>
    /\ UNCHANGED harnessVars

\* one second of playback of player k
playbackAdvance(k) ==
    /\ ~needsRender
    /\ k \in 1..Len(players)
    /\ players[k].state = "playing"
    /\ players[k].position < getDuration(players[k].videoId)
    /\ players' = [players EXCEPT ![k].position = @ + 1]
    /\ toast' = "none"
    /\ clipboard' = <<>>
    /\ lastOp' = Op("playbackAdvance", k)
    /\ UNCHANGED <<metadata, loading, timestamps, copied, currentTime,
                   currentDescription, videoDuration, now, pendingLoads,
                   needsRender, displayed, nextOrd>>
    /\ UNCHANGED <<revision, videoSource, ytLoaded, player, isPlaying, timers, effectVideoId>>
    /\ UNCHANGED harnessVars

\* the callback of the i-th interval: `player` in it is the state value
\* initializePlayer saw when it made the player whose handler set the interval
timeUpdateInterval(i) ==
    /\ ~needsRender
    /\ i \in 1..Len(timers)
    /\ IF players[timers[i]].closure # 0
       THEN /\ currentTime' =
                  formatSeconds(currentSecondsOf(players[timers[i]].closure))
            /\ needsRender' = TRUE
       ELSE UNCHANGED <<currentTime, needsRender>>
    /\ toast' = "none"
    /\ clipboard' = <<>>
    /\ lastOp' = Op("timeUpdateInterval", timers[i])
    /\ UNCHANGED <<metadata, loading, timestamps, copied, currentDescription,
                   videoDuration, now, pendingLoads, displayed, nextOrd>>
    /\ UNCHANGED playerVars
    /\ UNCHANGED harnessVars

\* seekTo(seconds): what it does to the player objects (the player stops
\* at the end of its video)
seekTo(seconds) ==
    IF player = 0
    THEN UNCHANGED players
    ELSE players' = [players EXCEPT ![player].position =
                          Min(seconds, getDuration(players[player].videoId))]

\* the body of togglePlayPause; playVideo() and pauseVideo() are requests,
\* the change of state is reported later through onStateChange
togglePlayPause ==
    IF player = 0
    THEN UNCHANGED <<isPlaying, needsRender>>
    ELSE /\ isPlaying' = ~isPlaying
         /\ needsRender' = TRUE

\* Faulty variant of adjustTime: the new time is not held below the duration
adjustTime_noUpperClamp(seconds) ==
    IF player = 0
    THEN UNCHANGED <<currentTime, players, needsRender>>
    ELSE LET newSeconds == Max(currentSecondsOf(player) + seconds, 0)
         IN  /\ currentTime' = formatSeconds(newSeconds)
             /\ seekTo(newSeconds)
             /\ needsRender' = TRUE

\* the body of adjustTime(seconds)
adjustTime(seconds) ==
    IF player = 0
    THEN UNCHANGED <<currentTime, players, needsRender>>
    ELSE LET newSeconds ==
                 Min(Max(currentSecondsOf(player) + seconds, 0), videoDuration)
         IN  /\ currentTime' = formatSeconds(newSeconds)
             /\ seekTo(newSeconds)
             /\ needsRender' = TRUE

\* onClick of the play/pause buttons
clickPlayPause ==
    /\ ~needsRender
    /\ metadata # null
    /\ togglePlayPause
    /\ toast' = "none"
    /\ clipboard' = <<>>
    /\ lastOp' = Op("togglePlayPause", 0)
    /\ UNCHANGED <<metadata, loading, timestamps, copied, currentTime,
                   currentDescription, videoDuration, now, pendingLoads,
                   displayed, nextOrd>>
    /\ UNCHANGED <<revision, videoSource, ytLoaded, player, players, timers, effectVideoId>>
    /\ UNCHANGED harnessVars

\* onClick of the rewind and forward buttons: adjustTime(-10), adjustTime(10)
clickAdjustTime(seconds) ==
    /\ ~needsRender
    /\ metadata # null
    /\ adjustTime(seconds)
    /\ toast' = "none"
    /\ clipboard' = <<>>
    /\ lastOp' = Op("adjustTime", seconds)
    /\ UNCHANGED <<metadata, loading, timestamps, copied, currentDescription,
                   videoDuration, now, pendingLoads, displayed, nextOrd>>
    /\ UNCHANGED <<revision, videoSource, ytLoaded, player, isPlaying, timers, effectVideoId>>
    /\ UNCHANGED harnessVars

\* captureCurrentTime of src/pages/Index.tsx
captureCurrentTime_Index ==
    IF player = 0
    THEN /\ toast' = "none"
         /\ UNCHANGED <<currentTime, needsRender>>
    ELSE /\ currentTime' =
               numToString(currentSecondsOf(player) \div 60) \o <<":">>
                   \o padStart2(numToString(currentSecondsOf(player) % 60))
         /\ needsRender' = TRUE
         /\ toast' = "none"

\* captureCurrentTime of the later revision (no local video is loaded)
captureCurrentTime_part001 ==
    /\ currentTime' = formatSeconds(IF player # 0 THEN currentSecondsOf(player) ELSE 0)
    /\ needsRender' = TRUE
    /\ toast' = "Current time captured"

\* onClick of the capture button
captureCurrentTime ==
    /\ ~needsRender
    /\ metadata # null
    /\ IF revision = "Index.tsx"
       THEN captureCurrentTime_Index
       ELSE captureCurrentTime_part001
    /\ clipboard' = <<>>
    /\ lastOp' = Op("captureCurrentTime", 0)
    /\ UNCHANGED <<metadata, loading, timestamps, copied, currentDescription,
                   videoDuration, now, pendingLoads, displayed, nextOrd>>
    /\ UNCHANGED playerVars
    /\ UNCHANGED harnessVars

\* keys pressed in the time field
Keys == {"ArrowLeft", "ArrowRight", " ", "Enter", "a"}

\* onKeyDown of the time field
handleTimeKeyDown(key) ==
    /\ ~needsRender
    /\ metadata # null
    /\ IF player = 0
       THEN UNCHANGED <<currentTime, isPlaying, players, needsRender>>
       ELSE CASE key = "ArrowLeft"  -> adjustTime(-5) /\ UNCHANGED isPlaying
              [] key = "ArrowRight" -> adjustTime(5) /\ UNCHANGED isPlaying
              [] key = " "          -> togglePlayPause /\ UNCHANGED <<currentTime, players>>
              [] key = "Enter"      ->
                    /\ IF timeToSeconds(currentTime) # NaN
                            /\ timeToSeconds(currentTime) <= videoDuration
                       THEN seekTo(timeToSeconds(currentTime))
                       ELSE UNCHANGED players
                    /\ UNCHANGED <<currentTime, isPlaying, needsRender>>
              [] OTHER              ->
                    UNCHANGED <<currentTime, isPlaying, players, needsRender>>
    /\ toast' = "none"
    /\ clipboard' = <<>>
    /\ lastOp' = Op("handleTimeKeyDown", key)
    /\ UNCHANGED <<metadata, loading, timestamps, copied, currentDescription,
                   videoDuration, now, pendingLoads, displayed, nextOrd>>
    /\ UNCHANGED <<revision, videoSource, ytLoaded, player, timers, effectVideoId>>
    /\ UNCHANGED harnessVars

\* values of e.target.value the user may leave in the time field
PlayerTimes == { <<"0", ":", "0", "2">> }

\* the page of either revision, the IFrame API script still on its way
PlayerInit ==
    /\ UiInit
    /\ ytLoaded = FALSE
    /\ revision \in {"Index.tsx", "part_001"}
    /\ HarnessIdle

NextPlayer ==
    \/ Render
    \/ onYouTubeIframeAPIReady
    \/ handleSubmit(UrlClip)
    \/ loadResolved
    \/ onReady
    \/ \E k \in 1..MaxPlayers : \E data \in {"playing", "paused"} : onStateChange(k, data)
    \/ \E k \in 1..MaxPlayers : playbackAdvance(k)
    \/ \E i \in 1..MaxTimers : timeUpdateInterval(i)
    \/ \E raw \in PlayerTimes : TypeTime(raw)
    \/ clickPlayPause
    \/ \E seconds \in {-10, 10} : clickAdjustTime(seconds)
    \/ captureCurrentTime
    \/ \E key \in Keys : handleTimeKeyDown(key)

SpecPlayer == PlayerInit /\ [][NextPlayer]_vars

\* seeking in a paused player: a long and a short video are loaded, and the
\* position is moved with the arrow keys and the rewind and forward buttons
NextSeek ==
    \/ Render
    \/ onYouTubeIframeAPIReady
    \/ handleSubmit(UrlYoutuBe)
    \/ handleSubmit(UrlClip)
    \/ loadResolved
    \/ onReady
    \/ \E seconds \in {-10, 10} : clickAdjustTime(seconds)
    \/ \E key \in Keys : handleTimeKeyDown(key)

SpecSeek == PlayerInit /\ [][NextSeek]_vars

\* values of e.target.value the user may leave in the time field of a page
\* showing the video of an hour
CaptureTimes ==
    { <<"0", ":", "5", "9">>,                       \* 0:59
      <<"5", "9", ":", "5", "9">>,                  \* 59:59
      <<"1", ":", "0", "0", ":", "0", "0">> }       \* 1:00:00

\* entries created in one run of the capture page
MaxCaptureAdds == 1

\* capturing the position of a paused player: the video of an hour is
\* loaded, the user seeks with Enter in the time field and captures
NextCapture ==
    \/ Render
    \/ onYouTubeIframeAPIReady
    \/ handleSubmit(UrlLecture)
    \/ loadResolved
    \/ onReady
    \/ \E raw \in CaptureTimes : TypeTime(raw)
    \/ \E d \in TypedDescriptions : TypeDescription(d)
    \/ handleTimeKeyDown("Enter")
    \/ captureCurrentTime
    \/ (nextOrd < MaxCaptureAdds /\ addTimestamp)

SpecCapture == PlayerInit /\ [][NextCapture]_vars

----------------------------------------------------------------------------
(* The later revision: choosing the source of the video, uploading a file  *)

\* onClick of the "YouTube Video" and "Upload Video" buttons
setVideoSource(source) ==
    /\ ~needsRender
    /\ revision = "part_001"
    /\ videoSource' = source
    /\ needsRender' = (source # videoSource)
    /\ toast' = "none"
    /\ clipboard' = <<>>
    /\ lastOp' = Op("setVideoSource", 0)
    /\ UNCHANGED <<metadata, loading, timestamps, copied, currentTime,
                   currentDescription, videoDuration, now, pendingLoads,
                   displayed, nextOrd>>
    /\ UNCHANGED <<revision, ytLoaded, player, isPlaying, players, timers,
                   effectVideoId>>
    /\ UNCHANGED harnessVars

StrVideoSlash == <<"v", "i", "d", "e", "o", "/">>

\* Faulty variant of handleFileUpload: the list is kept when a file is accepted
handleFileUpload_keepsList(files) ==
    /\ ~needsRender
    /\ revision = "part_001"
    /\ videoSource = "local"
    /\ clipboard' = <<>>
    /\ lastOp' = Op("handleFileUpload", files)
    /\ IF files = <<>>
       THEN /\ toast' = "none"
            /\ UNCHANGED <<metadata, timestamps, needsRender>>
       ELSE IF ~startsWith(files[1].type, StrVideoSlash)
       THEN /\ toast' = "Please upload a video file"
            /\ UNCHANGED <<metadata, timestamps, needsRender>>
       ELSE /\ metadata' = LocalMetadata(files[1].name)
            /\ UNCHANGED timestamps
            /\ toast' = "Video loaded successfully"
            /\ needsRender' = TRUE
    /\ UNCHANGED <<loading, copied, currentTime, currentDescription,
                   videoDuration, now, pendingLoads, displayed, nextOrd>>
    /\ UNCHANGED playerVars
    /\ UNCHANGED harnessVars

\* onChange of the file input (shown while videoSource is "local");
\* files is event.target.files
handleFileUpload(files) ==
    /\ ~needsRender
    /\ revision = "part_001"
    /\ videoSource = "local"
    /\ clipboard' = <<>>
    /\ lastOp' = Op("handleFileUpload", files)
    /\ IF files = <<>>
       THEN /\ toast' = "none"
            /\ UNCHANGED <<metadata, timestamps, needsRender>>
       ELSE IF ~startsWith(files[1].type, StrVideoSlash)
       THEN /\ toast' = "Please upload a video file"
            /\ UNCHANGED <<metadata, timestamps, needsRender>>
       ELSE /\ metadata' = LocalMetadata(files[1].name)
            /\ timestamps' = <<>>
            /\ toast' = "Video loaded successfully"
            /\ needsRender' = TRUE
    /\ UNCHANGED <<loading, copied, currentTime, currentDescription,
                   videoDuration, now, pendingLoads, displayed, nextOrd>>
    /\ UNCHANGED playerVars
    /\ UNCHANGED harnessVars

\* the length in seconds of every local video file
LocalLen == 2

\* 'durationchange' of the video element of a local file
handleDurationChange ==
    /\ ~needsRender
    /\ isLocal(metadata)
    /\ videoDuration' = LocalLen
    /\ needsRender' = TRUE
    /\ toast' = "none"
    /\ clipboard' = <<>>
    /\ lastOp' = Op("handleDurationChange", 0)
    /\ UNCHANGED <<metadata, loading, timestamps, copied, currentTime,
                   currentDescription, now, pendingLoads, displayed, nextOrd>>
    /\ UNCHANGED playerVars
    /\ UNCHANGED harnessVars

\* 'timeupdate' of the video element of a local file, which stands at
\* position seconds (played or scrubbed there with its own controls)
handleTimeUpdate(seconds) ==
    /\ ~needsRender
    /\ isLocal(metadata)
    /\ currentTime' = formatSeconds(seconds)
    /\ needsRender' = TRUE
    /\ toast' = "none"
    /\ clipboard' = <<>>
    /\ lastOp' = Op("handleTimeUpdate", seconds)
    /\ UNCHANGED <<metadata, loading, timestamps, copied, currentDescription,
                   videoDuration, now, pendingLoads, displayed, nextOrd>>
    /\ UNCHANGED playerVars
    /\ UNCHANGED harnessVars

\* the name of the files the user picks
FileName == <<"a">>

\* declared content types of the files the user picks
FileTypes ==
    { <<"v", "i", "d", "e", "o", "/", "m", "p", "4">>,
      <<"v", "i", "d", "e", "o", "/">>,
      <<"v", "i", "d", "e", "o">>,
      <<"v", "i", "d", "e", "o", "s", "/", "x">>,
      <<"x", "v", "i", "d", "e", "o", "/", "m", "p", "4">>,
      <<"V", "i", "d", "e", "o", "/", "m", "p", "4">>,
      <<"i", "m", "a", "g", "e", "/", "p", "n", "g">>,
      <<>> }

\* values of event.target.files: no file, or one file
FileLists == {<<>>} \cup {<<[name |-> FileName, type |-> t]>> : t \in FileTypes}

\* commits attempted in one run of the later revision
MaxUploadAdds == 1

\* the page of the later revision, the IFrame API script in place
UploadInit ==
    /\ UiInit
    /\ ytLoaded = TRUE
    /\ revision = "part_001"
    /\ HarnessIdle

NextUpload ==
    \/ Render
    \/ \E source \in {"youtube", "local"} : setVideoSource(source)
    \/ \E files \in FileLists : handleFileUpload(files)
    \/ handleDurationChange
    \/ \E seconds \in 0..LocalLen : handleTimeUpdate(seconds)
    \/ handleSubmit(UrlClip)
    \/ loadResolved
    \/ onReady
    \/ \E d \in TypedDescriptions : TypeDescription(d)
    \/ (nextOrd < MaxUploadAdds /\ addTimestamp)

SpecUpload == UploadInit /\ [][NextUpload]_vars

----------------------------------------------------------------------------
(* Exporting: the page driven with the times and descriptions of a chapter *)
(* list, before the player has reported a duration                          *)

Str1_05 == <<"1", ":", "0", "5">>
Str0_30 == <<"0", ":", "3", "0">>
StrIntro == <<"I", "n", "t", "r", "o">>
StrHook == <<"H", "o", "o", "k">>

\* values of e.target.value the user may leave in the time field
ExportTimes == { Str1_05, Str0_30 }

\* values of e.target.value the user may leave in the description field
ExportDescriptions == { StrIntro, StrHook }

\* commits attempted in one run of the chapter list
MaxExportAdds == 2

NextExport ==
    \/ Render
    \/ \E raw \in ExportTimes : TypeTime(raw)
    \/ \E d \in ExportDescriptions : TypeDescription(d)
    \/ (nextOrd < MaxExportAdds /\ addTimestamp)
    \/ copyToClipboard
    \/ \E url \in TypedUrls : handleSubmit(url)
    \/ loadResolved

SpecExport == Init /\ [][NextExport]_vars

----------------------------------------------------------------------------
(* Submitting URLs: the page driven with many values of the url field      *)

\* longest run of identifier characters in a generated URL
MaxIdLen == 12

\* n copies of the character c
Rep(c, n) == [i \in 1..n |-> c]

UrlNotYoutube == <<"h", "t", "t", "p", "s", ":", "/", "/", "e", "x", "a", "m", "p", "l", "e", ".", "c", "o", "m", "/", "n", "o", "t", "-", "y", "o", "u", "t", "u", "b", "e">>

UrlWatch == <<"h", "t", "t", "p", "s", ":", "/", "/", "w", "w", "w", ".", "y", "o", "u", "t", "u", "b", "e", ".", "c", "o", "m", "/", "w", "a", "t", "c", "h", "?", "v", "=", "d", "Q", "w", "4", "w", "9", "W", "g", "X", "c", "Q">>

\* what a generated URL holds before, as and after its identifier
UrlHeads ==
    { <<>>,
      <<"y", "o", "u", "t", "u", ".", "b", "e", "/">>,
      <<"y", "o", "u", "t", "u", "x", "b", "e", "/">>,
      <<"v", "/">>,
      <<"/", "u", "/", "a", "/">>,
      <<"/", "u", "/", "-", "/">>,
      <<"e", "m", "b", "e", "d", "/">>,
      <<"w", "a", "t", "c", "h", "?", "v", "=">>,
      <<"w", "a", "t", "c", "h", "?">>,
      <<"x", ".", "c", "o", "m", "/">> }
UrlIds ==
    {Rep("a", n) : n \in {0} \cup (MaxIdLen - 2)..MaxIdLen}
        \cup {<<"v">> \o Rep("a", 10)}
UrlTails == { <<>>, <<"&", "t", "=", "1">>, <<"#", "t">>, <<"?", "s">> }

\* values of the url field at the time the form is submitted
SubmitUrls ==
    {h \o i \o tl : h \in UrlHeads, i \in UrlIds, tl \in UrlTails}
        \cup {UrlYoutuBe, UrlWatch, UrlNotYoutube}

\* a run of the page in which the user pastes one URL of SubmitUrls (held
\* in inStr) and the known video URL into the url field
SubmitInit ==
    /\ UiInit
    /\ ApiInPlace
    /\ pc = "ui"
    /\ inStr \in SubmitUrls
    /\ inNum = 0
    /\ outStr = <<>>
    /\ outNum = 0
    /\ outOk = FALSE

NextSubmit ==
    \/ Render
    \/ \E d \in TypedDescriptions : TypeDescription(d)
    \/ addTimestamp
    \/ handleSubmit(inStr)
    \/ handleSubmit(UrlYoutuBe)
    \/ loadResolved

SpecSubmit == SubmitInit /\ [][NextSubmit]_vars

----------------------------------------------------------------------------
(* Loading under fairness: the one-second timer of a load fires, and React *)
(* finishes a render it has scheduled                                      *)

\* values of the url field at the time the form is submitted
LoadUrls == { <<>>, UrlNotYoutube, UrlYoutuBe, UrlClip }

NextLoad ==
    \/ Render
    \/ \E raw \in TypedTimes : TypeTime(raw)
    \/ \E d \in TypedDescriptions : TypeDescription(d)
    \/ \E url \in LoadUrls : handleSubmit(url)
    \/ loadResolved
    \/ onReady

\* what a render and the end of a load always change
progressVars == <<needsRender, players, pendingLoads>>

\* A scheduled render is always carried out.  The timer of a load fires
\* however often other events are handled first: each of them is followed
\* by a render, after which the continuation can run.
SpecLoad ==
    /\ Init
    /\ [][NextLoad]_vars
    /\ WF_progressVars(Render)
    /\ SF_progressVars(loadResolved)

----------------------------------------------------------------------------
(* Overlapping loads: handleSubmit called again before its await is over   *)

\* loads in flight at one time
MaxPending == 2

\* handleSubmit up to its await, called while a load is in flight.  The
\* submit button is disabled then, so the call does not come from a click
\* or from Enter in the url field; it comes from a submit event delivered
\* to the form otherwise (form.requestSubmit(), a dispatched event).  The
\* handler does not look at `loading`.
handleSubmitWhileLoading(url) ==
    /\ ~needsRender
    /\ loading
    /\ videoSource = "youtube"
    /\ Len(pendingLoads) < MaxPending
    /\ Len(players) + Len(pendingLoads) < MaxPlayers
    /\ clipboard' = <<>>
    /\ lastOp' = Op("handleSubmit", url)
    /\ IF url = <<>>
       THEN /\ toast' = "Please enter a YouTube URL"
            /\ UNCHANGED <<loading, pendingLoads, needsRender>>
       ELSE \E videoId \in {extractVideoId(url)} :
                IF videoId = null
                THEN /\ toast' = "Invalid YouTube URL"
                     /\ UNCHANGED <<loading, pendingLoads, needsRender>>
                ELSE /\ loading' = TRUE
                     /\ pendingLoads' = Append(pendingLoads, videoId)
                     /\ needsRender' = FALSE
                     /\ toast' = "none"
    /\ UNCHANGED <<metadata, timestamps, copied, currentTime, currentDescription,
                   videoDuration, now, displayed, nextOrd>>
    /\ UNCHANGED playerVars
    /\ UNCHANGED harnessVars

NextOverlap ==
    \/ Render
    \/ \E raw \in TypedTimes : TypeTime(raw)
    \/ \E d \in TypedDescriptions : TypeDescription(d)
    \/ \E url \in LoadUrls : handleSubmit(url)
    \/ \E url \in LoadUrls : handleSubmitWhileLoading(url)
    \/ loadResolved
    \/ onReady

SpecOverlap == Init /\ [][NextOverlap]_vars

----------------------------------------------------------------------------
(* Harness for the pure functions of the codec: the input is drawn in the  *)
(* initial state and each action applies one function to it.               *)

\* formatSeconds is applied to 0..MaxSeconds
MaxSeconds == 359999

\* longest string typed into the time field
MaxTypedLen == 5

\* longest string handed to the commit check
MaxCommitLen == 7

RECURSIVE StringsUpTo(_, _)
StringsUpTo(alphabet, n) ==
    IF n = 0 THEN {<<>>}
    ELSE LET shorter == StringsUpTo(alphabet, n - 1)
         IN  shorter \cup {Append(s, c) : s \in shorter, c \in alphabet}

\* typed input: digits below and above the [0-5] class, the colon, a letter
TypedStrings == StringsUpTo({"0", "1", "5", "6", "9", ":", "a"}, MaxTypedLen)

\* durations a player may report (0: not reported yet)
SampleDurations == {0, 1, 59, 60, 61, 600, 3599, 3600, 3661}

CommitExamples ==
    { <<"6", "0", ":", "0", "0">>, <<"1", ":", "2">>,
      <<"1", "2", ":", "3", "4">>, <<"1", ":", "1", "2", ":", "3", "4">> }

CommitStrings == StringsUpTo({"0", "5", "6", ":", "a"}, MaxCommitLen) \cup CommitExamples

HarnessInit(strings, numbers) ==
    /\ UiInit
    /\ ApiInPlace
    /\ pc = "start"
    /\ inStr \in strings
    /\ inNum \in numbers
    /\ outStr = <<>>
    /\ outNum = 0
    /\ outOk = FALSE

\* s -> formatSeconds(s)
applyFormatSeconds ==
    /\ pc = "start"
    /\ outStr' = formatSeconds(inNum)
    /\ pc' = "formatted"
    /\ UNCHANGED <<inStr, inNum, outNum, outOk>>
    /\ UNCHANGED uiVars

\* raw, duration -> formatTimeString(raw) with videoDuration = duration
applyFormatTimeString ==
    /\ pc = "start"
    /\ outStr' = formatTimeString(inStr, inNum)
    /\ pc' = "formatted"
    /\ UNCHANGED <<inStr, inNum, outNum, outOk>>
    /\ UNCHANGED uiVars

\* timeToSeconds of the string produced before
applyTimeToSeconds ==
    /\ pc = "formatted"
    /\ outNum' = timeToSeconds(outStr)
    /\ pc' = "parsed"
    /\ UNCHANGED <<inStr, inNum, outStr, outOk>>
    /\ UNCHANGED uiVars

\* timeRegex.test(time)
applyTimeRegex ==
    /\ pc = "start"
    /\ outOk' = timeRegexTest(inStr)
    /\ pc' = "tested"
    /\ UNCHANGED <<inStr, inNum, outStr, outNum>>
    /\ UNCHANGED uiVars

\* longest string handed to timeToSeconds
MaxParseLen == 7

\* strings handed to timeToSeconds: digits, the colon, a letter
ParseStrings == StringsUpTo({"0", "9", ":", "a"}, MaxParseLen)

\* time -> timeToSeconds(time)
applyTimeToSecondsOfInput ==
    /\ pc = "start"
    /\ outNum' = timeToSeconds(inStr)
    /\ pc' = "decoded"
    /\ UNCHANGED <<inStr, inNum, outStr, outOk>>
    /\ UNCHANGED uiVars

SpecParse ==
    HarnessInit(ParseStrings, {0}) /\ [][applyTimeToSecondsOfInput]_vars

\* timeRegex.test of the string produced before
applyTimeRegexToOutput ==
    /\ pc = "formatted"
    /\ outOk' = timeRegexTest(outStr)
    /\ pc' = "checked"
    /\ UNCHANGED <<inStr, inNum, outStr, outNum>>
    /\ UNCHANGED uiVars

\* formatSeconds of 0..MaxSeconds, handed to the commit check
SpecCanonical ==
    HarnessInit({<<>>}, 0..MaxSeconds)
        /\ [][applyFormatSeconds \/ applyTimeRegexToOutput]_vars

\* formatTimeString of the string produced before, which becomes the input
applyFormatTimeStringToOutput ==
    /\ pc = "formatted"
    /\ inStr' = outStr
    /\ outStr' = formatTimeString(outStr, inNum)
    /\ pc' = "reformatted"
    /\ UNCHANGED <<inNum, outNum, outOk>>
    /\ UNCHANGED uiVars

SpecResanitize ==
    HarnessInit(TypedStrings, SampleDurations)
        /\ [][applyFormatTimeString \/ applyFormatTimeStringToOutput]_vars

SpecFormat ==
    HarnessInit({<<>>}, 0..MaxSeconds)
        /\ [][applyFormatSeconds \/ applyTimeToSeconds]_vars

SpecSanitize ==
    HarnessInit(TypedStrings, SampleDurations)
        /\ [][applyFormatTimeString \/ applyTimeToSeconds]_vars

SpecCommit ==
    HarnessInit(CommitStrings, {0}) /\ [][applyTimeRegex]_vars

----------------------------------------------------------------------------
(* Properties of the codec                                                 *)

\* C1: round trip: for every integer s in [0, 359999],
\* timeToSeconds(formatSeconds(s)) equals s.
C1_RoundTrip == pc = "parsed" => outNum = inNum

\* the largest value of the range, 99:59:59, has made the round trip
C1_Witness ==
    /\ pc = "parsed"
    /\ inNum = 359999
    /\ outStr = <<"9", "9", ":", "5", "9", ":", "5", "9">>
    /\ outNum = 359999

\* C2: clamp invariant: for every typed input and every known integer
\* duration > 0, timeToSeconds(formatTimeString(input)) is a number <= duration.
C2_ClampInvariant ==
    (pc = "parsed" /\ inNum > 0) => (outNum # NaN /\ outNum <= inNum)

\* a typed 9:59 against a duration of 61 s has been replaced by 1:01
C2_Witness ==
    /\ pc = "parsed"
    /\ inStr = <<"9", ":", "5", "9">>
    /\ inNum = 61
    /\ outStr = <<"1", ":", "0", "1">>
    /\ outNum = 61

AllDigits(seg) == \A i \in 1..Len(seg) : seg[i] \in Digit

\* the grammar of a committed time: an optional hours prefix of one or more
\* digits, minutes of 1-2 digits in [0,59], seconds of exactly 2 digits in
\* [0,59], separated by colons, and nothing else
StrictGrammar(s) ==
    LET segs == Split(s)
        n    == Len(segs)
    IN  /\ n \in {2, 3}
        /\ n = 3 => (Len(segs[1]) >= 1 /\ AllDigits(segs[1]))
        /\ AllDigits(segs[n - 1])
        /\ Len(segs[n - 1]) \in {1, 2}
        /\ DigitsValue(segs[n - 1]) <= 59
        /\ AllDigits(segs[n])
        /\ Len(segs[n]) = 2
        /\ DigitsValue(segs[n]) <= 59

\* C3: the commit check of addTimestamp accepts a string if and only if it
\* follows the strict grammar; "60:00" and "1:2" are rejected, "12:34" and
\* "1:12:34" are accepted.
C3_StrictCheck ==
    pc = "tested" =>
        /\ outOk <=> StrictGrammar(inStr)
        /\ inStr = <<"6", "0", ":", "0", "0">> => ~outOk
        /\ inStr = <<"1", ":", "2">> => ~outOk
        /\ inStr = <<"1", "2", ":", "3", "4">> => outOk
        /\ inStr = <<"1", ":", "1", "2", ":", "3", "4">> => outOk

\* 60:00 has been tested and rejected
C3_Witness ==
    /\ pc = "tested"
    /\ inStr = <<"6", "0", ":", "0", "0">>
    /\ ~outOk

----------------------------------------------------------------------------
(* Properties of the timestamp list                                        *)

Str0_10 == <<"0", ":", "1", "0">>
Str0_50 == <<"0", ":", "5", "0">>
Str60_00 == <<"6", "0", ":", "0", "0">>

Entries(arr) == {arr[i] : i \in 1..Len(arr)}

Ords(arr) == {arr[i].ord : i \in 1..Len(arr)}

\* the current edit fields would be refused by a commit
CommitRefused ==
    currentTime = <<>> \/ currentDescription = <<>> \/ ~StrictGrammar(currentTime)

\* C4: addTimestamp fails whenever the current time is empty, the current
\* description is empty or the current time fails the strict format check;
\* on every such failure the list, the edit-field time and the edit-field
\* description are unchanged (and, with a video loaded, an error notice is
\* raised).
C4_FailedAddChangesNothing ==
    [][(lastOp'.op = "addTimestamp" /\ CommitRefused) =>
          /\ timestamps' = timestamps
          /\ currentTime' = currentTime
          /\ currentDescription' = currentDescription
          /\ metadata # null =>
                toast' \in {"Please enter both time and description",
                            "Invalid time format. Please use mm:ss or h:mm:ss"}]_vars

\* a commit of 60:00 with a description has just been refused
C4_Witness ==
    /\ lastOp.op = "addTimestamp"
    /\ toast = "Invalid time format. Please use mm:ss or h:mm:ss"
    /\ currentTime = Str60_00
    /\ currentDescription = <<"A">>
    /\ Len(timestamps) = 1

\* C5: a successful addTimestamp leaves the list equal to the previous
\* entries plus exactly one new entry with the committed time, the committed
\* description and seconds = timeToSeconds(time); nothing stored before is
\* lost or replaced, and the render that follows shows the new entry.
C5_SuccessfulAddAppends ==
    [][/\ (lastOp'.op = "addTimestamp" /\ metadata # null /\ ~CommitRefused) =>
            /\ Len(timestamps') = Len(timestamps) + 1
            /\ SubSeq(timestamps', 1, Len(timestamps)) = timestamps
            /\ timestamps'[Len(timestamps')].time = currentTime
            /\ timestamps'[Len(timestamps')].description = currentDescription
            /\ timestamps'[Len(timestamps')].seconds = timeToSeconds(currentTime)
            /\ toast' = "Timestamp added"
       /\ (lastOp'.op = "render" /\ lastOp.op = "addTimestamp"
               /\ toast = "Timestamp added") =>
            \E i \in 1..Len(displayed') : displayed'[i].ord = nextOrd - 1]_vars

\* 0:50 has been committed behind an earlier entry and is shown
C5_Witness ==
    /\ lastOp.op = "render"
    /\ nextOrd = 2
    /\ Len(timestamps) = 2
    /\ \E i \in 1..2 : /\ timestamps[i].ord = 1
                       /\ timestamps[i].time = Str0_50
                       /\ timestamps[i].seconds = 50
                       /\ timestamps[i].description = <<"A">>
                       /\ displayed[i] = timestamps[i]

\* C6: after any sequence of adds and removes no two entries of the list
\* share an id, also when two adds happen without Date.now() advancing.
C6_UniqueIds ==
    \A i, j \in 1..Len(timestamps) : i # j => timestamps[i].id # timestamps[j].id

\* ascending by seconds, entries with equal seconds in insertion order
IsSortedStable(arr) ==
    \A i, j \in 1..Len(arr) :
        i < j => \/ arr[i].seconds < arr[j].seconds
                 \/ (arr[i].seconds = arr[j].seconds /\ arr[i].ord < arr[j].ord)

\* the element of a non-empty set of entries that comes first in that order
FirstOf(S) ==
    CHOOSE e \in S : \A f \in S \ {e} :
        \/ e.seconds < f.seconds
        \/ (e.seconds = f.seconds /\ e.ord < f.ord)

RECURSIVE InOrder(_)
InOrder(S) == IF S = {} THEN <<>> ELSE <<FirstOf(S)>> \o InOrder(S \ {FirstOf(S)})

\* C7: the displayed list and the exported text are always in ascending
\* order of seconds, entries with equal seconds in their insertion order,
\* after any sequence of adds, removes, renders and copies.
C7_SortedStableView ==
    /\ [](IsSortedStable(displayed))
    /\ [][lastOp'.op = "render" =>
              displayed' = (IF metadata = null THEN <<>>
                            ELSE InOrder(Entries(timestamps)))]_vars
    /\ [][(lastOp'.op = "copyToClipboard" /\ Len(timestamps) > 0) =>
              clipboard' = joinLines(InOrder(Entries(timestamps)))]_vars

\* seconds 50, 10, 10 were inserted in that order, are shown as
\* 10 (first), 10 (second), 50 and have been exported in that order
C7_Witness ==
    /\ Len(displayed) = 3
    /\ displayed[1].seconds = 10 /\ displayed[1].ord = 1
    /\ displayed[2].seconds = 10 /\ displayed[2].ord = 2
    /\ displayed[3].seconds = 50 /\ displayed[3].ord = 0
    /\ clipboard = joinLines(displayed)

\* C8: computing the sorted view, for rendering or for export, does not
\* change the order of the entries held in the stored timestamps state.
C8_ViewKeepsStorageOrder ==
    [][lastOp'.op \in {"render", "copyToClipboard"} => timestamps' = timestamps]_vars

\* C9: every entry of the list has seconds = timeToSeconds(time), a time
\* of the strict m:ss / h:mm:ss grammar and a non-empty description.
C9_EntriesWellFormed ==
    \A i \in 1..Len(timestamps) :
        /\ timestamps[i].seconds = timeToSeconds(timestamps[i].time)
        /\ timestamps[i].seconds # NaN
        /\ StrictGrammar(timestamps[i].time)
        /\ timestamps[i].description # <<>>

\* three entries committed from typed and from clamped times are stored
C9_Witness ==
    /\ Len(timestamps) = 3
    /\ \E i \in 1..3 : timestamps[i].time = Str0_50
    /\ \E i \in 1..3 : timestamps[i].time = formatSeconds(VideoLen)

\* C10: an entry keeps its id, time, seconds and description for as long
\* as it is in the list; entries appear only through a validated
\* addTimestamp, one at a time, and disappear only through removeTimestamp
\* of their id or through the list being cleared by a video load.
C10_EntryLifecycle ==
    [][/\ \A i \in 1..Len(timestamps) : \A j \in 1..Len(timestamps') :
              timestamps[i].ord = timestamps'[j].ord => timestamps[i] = timestamps'[j]
       /\ Cardinality(Ords(timestamps')) = Len(timestamps')
       /\ Ords(timestamps') \subseteq Ords(timestamps) \cup {nextOrd}
       /\ nextOrd \in Ords(timestamps') =>
              (lastOp'.op = "addTimestamp" /\ metadata # null /\ ~CommitRefused)
       /\ \A i \in 1..Len(timestamps) :
              timestamps[i].ord \notin Ords(timestamps') =>
                  \/ lastOp'.op = "removeTimestamp" /\ lastOp'.param = timestamps[i].id
                  \/ lastOp'.op = "loadResolved"]_vars

\* the first entry is still stored, unchanged, after later entries were
\* added, the list was re-sorted and another entry was removed
C10_Witness ==
    /\ lastOp.op = "removeTimestamp"
    /\ nextOrd = 3
    /\ Len(timestamps) = 2
    /\ timestamps[2] = [id |-> 0, time |-> Str0_50, description |-> <<"A">>,
                        seconds |-> 50, ord |-> 0]

\* C11: removeTimestamp(id) with an id present in the list removes the
\* entry with that identity and no other: every other entry stays, with its
\* fields and relative order unchanged, and the list shrinks by exactly one.
C11_RemoveExactlyOne ==
    [][(lastOp'.op = "removeTimestamp"
            /\ \E i \in 1..Len(timestamps) : timestamps[i].id = lastOp'.param) =>
          /\ Len(timestamps') = Len(timestamps) - 1
          /\ \E k \in 1..Len(timestamps) :
                /\ timestamps[k].id = lastOp'.param
                /\ \A i \in 1..Len(timestamps') :
                      timestamps'[i] = timestamps[IF i < k THEN i ELSE i + 1]]_vars

\* C12: removing an id that is not in the list reports that nothing was
\* removed and leaves the collection unchanged.
C12_RemoveAbsentReportsNothing ==
    [][(lastOp'.op = "removeTimestamp"
            /\ \A i \in 1..Len(timestamps) : timestamps[i].id # lastOp'.param) =>
          /\ timestamps' = timestamps
          /\ toast' # "Timestamp removed"]_vars

\* C13: copyToClipboard on an empty list is "nothing to export": no
\* clipboard write is made and the copied flag is left as it was (false,
\* unless an earlier copy set it and its timer has not fired yet); a
\* clipboard write happens only in a copyToClipboard step on a non-empty list.
C13_EmptyCopyWritesNothing ==
    [][/\ (lastOp'.op = "copyToClipboard" /\ Len(timestamps) = 0) =>
            /\ clipboard' = <<>>
            /\ copied' = copied
            /\ toast' = "No timestamps to copy"
            /\ UNCHANGED <<timestamps, needsRender>>
       /\ clipboard' # <<>> =>
            (lastOp'.op = "copyToClipboard" /\ Len(timestamps) > 0 /\ copied')]_vars

\* a copy has just been refused on an empty list, with a video loaded
C13_Witness ==
    /\ lastOp.op = "copyToClipboard"
    /\ toast = "No timestamps to copy"
    /\ metadata # null
    /\ timestamps = <<>>
    /\ clipboard = <<>>
    /\ ~copied

\* C15: formatTimeString returns formatSeconds(videoDuration) exactly when
\* videoDuration > 0 and the total recomputed from the cleaned input is
\* greater than videoDuration; in every other case, and always while
\* videoDuration = 0, it returns the cleaned typed string unclamped.
C15_ClampExactlyWhenOver ==
    pc = "formatted" =>
        LET cleaned == cleanedTime(inStr)
            total   == timeToSeconds(cleaned)
        IN  /\ total # NaN
            /\ outStr = IF inNum > 0 /\ total > inNum
                        THEN formatSeconds(inNum)
                        ELSE cleaned

\* with the duration unknown a typed 99999 is kept, as 99999:00
C15_Witness ==
    /\ pc = "formatted"
    /\ inStr = <<"9", "9", "9", "9", "9">>
    /\ inNum = 0
    /\ outStr = <<"9", "9", "9", "9", "9", ":", "0", "0">>

\* digits ':' two digits, or digits ':' digits ':' two digits
CleanedShape(s) ==
    LET segs == Split(s)
    IN  /\ Len(segs) \in {2, 3}
        /\ \A i \in 1..Len(segs) : segs[i] # <<>> /\ AllDigits(segs[i])
        /\ Len(segs[Len(segs)]) = 2

\* C16: formatTimeString tolerates every input (empty, no digits, empty
\* segments, more than three segments): it never fails and never yields a
\* NaN total, its result holds only digits and colons, and with an unknown
\* duration the result has the shape digits ':' two digits or
\* digits ':' digits ':' two digits.
C16_SanitizerTotal ==
    /\ pc = "formatted" =>
          /\ cleanedTotal(inStr) # NaN
          /\ \A i \in 1..Len(outStr) : outStr[i] \in Digit \cup {":"}
          /\ inNum = 0 => CleanedShape(outStr)
    /\ pc = "parsed" => outNum # NaN

\* three colons and nothing else come out as 0:00:00
C16_Witness ==
    /\ pc = "formatted"
    /\ inStr = <<":", ":", ":">>
    /\ inNum = 0
    /\ outStr = <<"0", ":", "0", "0", ":", "0", "0">>

\* id stands in url as written, between offsets p and p + Len(id)
OccursIn(id, url) ==
    \E p \in 0..(Len(url) - Len(id)) : \A i \in 1..Len(id) : url[p + i] = id[i]

\* what a handleSubmit step with the url field holding url must do, id
\* being what extractVideoId gives for url
SubmitStep(url, id) ==
    /\ UNCHANGED <<metadata, timestamps>>
    /\ IF url # <<>> /\ id # null
       THEN /\ Len(id) = 11
            /\ OccursIn(id, url)
            /\ \A i \in 1..Len(id) : id[i] \notin {"#", "&", "?"}
            /\ ~loading /\ loading'
            /\ pendingLoads' = Append(pendingLoads, id)
            /\ toast' = "none"
       ELSE /\ UNCHANGED <<loading, pendingLoads, needsRender>>
            /\ toast' = (IF url = <<>> THEN "Please enter a YouTube URL"
                         ELSE "Invalid YouTube URL")
    /\ loading' # loading => Len(pendingLoads'[Len(pendingLoads')]) = 11
    /\ url = UrlYoutuBe => pendingLoads' = <<VideoIdExample>>
    /\ url = UrlNotYoutube => (~loading' /\ toast' = "Invalid YouTube URL")

\* C20: handleSubmit starts a load only when the URL is non-empty and
\* extractVideoId returns an identifier of exactly 11 characters
\* (https://youtu.be/dQw4w9WgXcQ gives dQw4w9WgXcQ,
\* https://example.com/not-youtube gives none); otherwise loading, metadata
\* and the timestamp list are unchanged and only an error notice is raised.
C20_LoadOnlyForVideoId ==
    [][lastOp'.op = "handleSubmit" =>
          \A url \in {lastOp'.param} :
              \A id \in {extractVideoId(url)} : SubmitStep(url, id)]_vars

\* https://example.com/not-youtube has just been turned away while a video
\* with an entry in its list is loaded
C20_Witness ==
    /\ lastOp.op = "handleSubmit"
    /\ lastOp.param = UrlNotYoutube
    /\ toast = "Invalid YouTube URL"
    /\ metadata = VideoIdExample
    /\ Len(timestamps) > 0
    /\ ~loading

\* the pieces of text between its newline characters
RECURSIVE LinesOf(_)
LinesOf(text) ==
    IF \A i \in 1..Len(text) : text[i] # "\n" THEN <<text>>
    ELSE LET k == CHOOSE i \in 1..Len(text) :
                      text[i] = "\n" /\ \A j \in 1..(i - 1) : text[j] # "\n"
         IN  <<SubSeq(text, 1, k - 1)>> \o LinesOf(SubSeq(text, k + 1, Len(text)))

\* text is one line "<time> - <description>" per entry of view, in the
\* order of view, separated by single newlines, with no newline at the end
ExportedAs(text, view) ==
    /\ Len(LinesOf(text)) = Len(view)
    /\ \A i \in 1..Len(view) :
          LinesOf(text)[i] = view[i].time \o <<" ", "-", " ">> \o view[i].description
    /\ text # <<>>
    /\ text[Len(text)] # "\n"

ExportExample == <<"0", ":", "3", "0", " ", "-", " ", "H", "o", "o", "k", "\n", "1", ":", "0", "5", " ", "-", " ", "I", "n", "t", "r", "o">>

\* C14: the text written to the clipboard is the sorted view mapped to one
\* line "<time> - <description>" per entry, joined by newline with no
\* trailing newline; adding ("1:05","Intro") then ("0:30","Hook") exports
\* "0:30 - Hook\n1:05 - Intro".
C14_ExportText ==
    /\ [][(lastOp'.op = "copyToClipboard" /\ Len(timestamps) > 0) =>
              \A text \in {clipboard'} :
                  \A view \in {InOrder(Entries(timestamps))} :
                      ExportedAs(text, view)]_vars
    /\ []((/\ lastOp.op = "copyToClipboard"
           /\ Len(timestamps) = 2
           /\ \E i, j \in 1..2 :
                 /\ timestamps[i].ord < timestamps[j].ord
                 /\ timestamps[i].time = Str1_05
                 /\ timestamps[i].description = StrIntro
                 /\ timestamps[j].time = Str0_30
                 /\ timestamps[j].description = StrHook)
          => clipboard = ExportExample)

\* 1:05 Intro and then 0:30 Hook were added and the list has been exported
C14_Witness ==
    /\ lastOp.op = "copyToClipboard"
    /\ nextOrd = 2
    /\ Len(timestamps) = 2
    /\ \E i, j \in 1..2 : /\ timestamps[i].ord = 0 /\ timestamps[i].time = Str1_05
                          /\ timestamps[i].description = StrIntro
                          /\ timestamps[j].ord = 1 /\ timestamps[j].time = Str0_30
                          /\ timestamps[j].description = StrHook
    /\ clipboard = ExportExample

\* C17: the polling timer is active only while the player reports playing:
\* whenever playback stops or the component is torn down every timer made
\* for playback is cancelled, so at most one timer is ever active and none
\* is active while its player is not playing.
C17_TimerOnlyWhilePlaying ==
    /\ Len(timers) <= 1
    /\ \A i \in 1..Len(timers) : players[timers[i]].state = "playing"

\* C18: while the embedded player plays the first loaded video, each tick
\* of the one-second timer re-reads that player's position and sets the
\* edit-field time to formatSeconds(floor(position)).
C18_TickFollowsPosition ==
    [][(/\ lastOp'.op = "timeUpdateInterval"
        /\ lastOp'.param = 1
        /\ player = 1
        /\ players[1].state = "playing") =>
          currentTime' = formatSeconds(players[1].position)]_vars

\* the steps that invoke a player control
ControlOps == {"togglePlayPause", "adjustTime", "captureCurrentTime", "handleTimeKeyDown"}

\* C19: when no player is ready, invoking any control (togglePlayPause,
\* seekTo, adjustTime, captureCurrentTime, the keyboard shortcuts of the
\* time field) is a silent no-op: isPlaying, the edit-field time and all
\* other state are unchanged and no notice is shown.
C19_ControlsSilentWithoutPlayer ==
    [][(lastOp'.op \in ControlOps /\ player = 0) =>
          /\ toast' = "none"
          /\ UNCHANGED <<isPlaying, currentTime, players, player, timers,
                         metadata, loading, timestamps, copied,
                         currentDescription, videoDuration, needsRender>>]_vars

----------------------------------------------------------------------------
(* Properties of the decoder, the canonical formatter and the sanitizer    *)

\* number of colons in s
Colons(s) == Cardinality({i \in 1..Len(s) : s[i] = ":"})

\* C22: timeToSeconds returns m*60+s for a string of exactly 2
\* colon-separated segments, h*3600+m*60+s for exactly 3 segments and 0 for
\* any other number of segments (1, or 4 and more); the range of a segment
\* is not validated (99:99 gives 6039).  A segment with no leading digit
\* parses to NaN and makes the sum NaN.
C22_DecodeBySegmentCount ==
    pc = "decoded" =>
        LET n    == Colons(inStr) + 1
            segs == Split(inStr)
            v    == [i \in 1..Len(segs) |->
                        IF LeadingDigits(segs[i]) = <<>> THEN NaN
                        ELSE DigitsValue(LeadingDigits(segs[i]))]
            bad  == \E i \in 1..Len(segs) : v[i] = NaN
        IN  /\ Len(segs) = n
            /\ n \notin {2, 3} => outNum = 0
            /\ (n \in {2, 3} /\ bad) => outNum = NaN
            /\ (n = 2 /\ ~bad) => outNum = v[1] * 60 + v[2]
            /\ (n = 3 /\ ~bad) => outNum = v[1] * 3600 + v[2] * 60 + v[3]
            /\ inStr = <<"9", "9", ":", "9", "9">> => outNum = 6039

\* 9:9:9:9, four segments, has been decoded to 0
C22_Witness ==
    /\ pc = "decoded"
    /\ inStr = <<"9", ":", "9", ":", "9", ":", "9">>
    /\ outNum = 0

C30_SanitizerIdempotent ==
    pc = "reformatted" => outStr = inStr

\* a typed 9:59 was clamped to 1:01 by a duration of 61 s, and 1:01 has
\* gone through the sanitizer again
C30_Witness ==
    /\ pc = "reformatted"
    /\ inNum = 61
    /\ inStr = <<"1", ":", "0", "1">>
    /\ outStr = <<"1", ":", "0", "1">>

----------------------------------------------------------------------------
(* Properties of loading a video                                            *)

\* C21: handleFileUpload accepts a file only if its declared content type
\* begins with "video/"; for any other file, and for no file, the upload is
\* rejected (with the notice "Please upload a video file" when a file was
\* given) and metadata and the timestamp list are left unchanged.
C21_UploadOnlyVideo ==
    [][lastOp'.op = "handleFileUpload" =>
          \A files \in {lastOp'.param} :
              LET accepted == /\ Len(files) > 0
                              /\ Len(files[1].type) >= 6
                              /\ \A i \in 1..6 : files[1].type[i] = StrVideoSlash[i]
              IN  IF accepted
                  THEN /\ metadata' = LocalMetadata(files[1].name)
                       /\ toast' = "Video loaded successfully"
                  ELSE /\ UNCHANGED <<metadata, timestamps>>
                       /\ toast' = (IF files = <<>> THEN "none"
                                    ELSE "Please upload a video file")]_vars

\* an image has just been turned away while a YouTube video with an entry
\* in its list is loaded
C21_Witness ==
    /\ lastOp.op = "handleFileUpload"
    /\ lastOp.param = <<[name |-> FileName, type |-> <<"i", "m", "a", "g", "e", "/", "p", "n", "g">>]>>
    /\ toast = "Please upload a video file"
    /\ ~isLocal(metadata)
    /\ metadata # null
    /\ Len(timestamps) > 0

\* C24: whenever a video load completes (a URL load resolving, a video file
\* accepted) metadata is replaced and the timestamp list is emptied in the
\* same step; metadata changes in no other step, and entries are added only
\* while a video is shown and without changing it.  So every entry of the
\* list was added while the metadata of the video shown now was in place,
\* and entries added while a load was in flight are gone once it resolves.
C24_LoadEmptiesList ==
    [][/\ lastOp'.op = "loadResolved" =>
            (metadata' = Head(pendingLoads) /\ timestamps' = <<>>)
       /\ (lastOp'.op = "handleFileUpload" /\ toast' = "Video loaded successfully") =>
            (isLocal(metadata') /\ timestamps' = <<>>)
       /\ metadata' # metadata =>
            /\ timestamps' = <<>>
            /\ \/ lastOp'.op = "loadResolved"
               \/ lastOp'.op = "handleFileUpload"
       /\ Ords(timestamps') \ Ords(timestamps) # {} =>
            (metadata' = metadata /\ metadata # null)]_vars

\* an entry was added to the list of a local video, and the URL load that
\* has just resolved replaced the video and emptied the list
C24_Witness ==
    /\ lastOp.op = "loadResolved"
    /\ nextOrd = 1
    /\ timestamps = <<>>
    /\ metadata = videoIdOf(metadata)
    /\ metadata # null
    /\ videoSource = "youtube"

----------------------------------------------------------------------------
(* Properties of the player controls                                        *)

\* the player `player` refers to has reported its duration: the duration
\* the page holds is the one of the video that player shows
PlayerReady ==
    /\ player # 0
    /\ videoDuration = getDuration(players[player].videoId)

\* the seconds a step asks the position to move by (0: it asks for no move)
MoveOf(op) ==
    IF op.op = "adjustTime" THEN op.param
    ELSE IF op.op = "handleTimeKeyDown"
         THEN (IF op.param = "ArrowLeft" THEN -5
               ELSE IF op.param = "ArrowRight" THEN 5 ELSE 0)
    ELSE 0

C25_LoadsFinish ==
    /\ (loading \/ pendingLoads # <<>>) ~> (~loading /\ pendingLoads = <<>>)
    /\ [](pendingLoads = <<>> => ~loading)

\* the load of the second video has finished and the flag is down again
C25_Witness ==
    /\ lastOp.op = "loadResolved"
    /\ ~loading
    /\ pendingLoads = <<>>
    /\ Len(players) = 1
    /\ metadata = VideoIdExample
    /\ players[1].videoId = <<"a", "a", "a", "a", "a", "a", "a", "a", "a", "a", "a">>

\* C26: the loading flag is true in every state in which a metadata load
\* is in flight, also when handleSubmit was called a second time before
\* the first load resolved (two overlapping loads).
C26_LoadingWhileInFlight == pendingLoads # <<>> => loading

\* C27: whenever the video duration is known (videoDuration > 0), every
\* entry of the timestamp list has seconds <= videoDuration, after any
\* interleaving of typing, player-ready notifications, adds and video loads.
C27_EntriesWithinDuration ==
    videoDuration > 0 =>
        \A i \in 1..Len(timestamps) : timestamps[i].seconds <= videoDuration

\* C28: a time captured from the player can always be committed: after
\* captureCurrentTime with a ready player at any position p >= 0, p >= 3600
\* seconds included, the edit-field time equals formatSeconds(floor(p)) and
\* passes the strict format check addTimestamp makes before it commits.
C28_CaptureCommittable ==
    [][(lastOp'.op = "captureCurrentTime" /\ PlayerReady) =>
          \A t \in {currentTime'} :
              /\ t = formatSeconds(players[player].position)
              /\ timeRegexTest(t)]_vars

====
